---------------------------- MODULE Spec2Model ----------------------------
(***************************************************************************)
(* A model of the faculty search engine: the index build                   *)
(* (IndexAndEmbeddingsGeneration.py), the two search modules               *)
(* (SearchEngine.py, searching.py) and the MongoDB collections and the     *)
(* pickle file they share.                                                 *)
(*                                                                         *)
(* A collection is the sequence of its documents in natural (insertion)    *)
(* order.  A text is the set of words it contains, so a term frequency is  *)
(* 0 or 1.  TF-IDF weights are fixed-point integers (quarters); rows        *)
(* are kept unnormalised: L2 normalisation divides a row by a positive     *)
(* constant, which changes neither the sign of a weight nor a cosine.      *)
(***************************************************************************)
EXTENDS Integers, Sequences, FiniteSets, TLC

\* ------------------------------------------------------------------ bounds
\* Longest result list and largest page size given to paginate_results.
MaxResults == 7

MaxPageSize == 5

\* Longest result list given to paginate_and_display_results.
MaxHits == 12

\* Largest num_targets given to Crawler.crawl.
MaxTargets == 2

\* The URLs of the site crawled, the base URL first.
UrlSeq == <<"index", "p1", "p2">>

Urls == {UrlSeq[i] : i \in 1..Len(UrlSeq)}

BaseUrl == UrlSeq[1]

\* Most documents FacultyInfo holds; their ids are 1..MaxDocs.
MaxDocs == 2

DocNums == 1..MaxDocs

\* The words of the model in alphabetical order, the order in which
\* TfidfVectorizer numbers its features.
WordSeq == <<"biology", "cell">>

Terms == {WordSeq[i] : i \in 1..Len(WordSeq)}

\* A word of sklearn's English stop list, and a word no corpus contains.
StopWords == {"the"}

OovWord == "quantum"

\* What a user may type besides the terms and a stop word: an inflected
\* term, a misspelled term, the misspelled term capitalised, and the letter q.
Inflected == "cells"

Misspelled == "biolgy"

Capitalised == "Biolgy"

RawWords == Terms \cup StopWords \cup {Inflected, Misspelled, Capitalised, "q"}

\* str.lower() of a word.
Lower(w) == IF w = Capitalised THEN Misspelled ELSE w

\* The texts a document may hold: any set of terms, or stop words only.
\* The empty text is a missing or empty faculty_info field.
Texts == (SUBSET Terms) \cup {StopWords}

None == [none |-> TRUE]

\* A file that does not exist.
NoFile == <<>>

\* ------------------------------------------------------- module globals
BUILD == "IndexAndEmbeddingsGeneration"

SEARCH_ENGINE == "SearchEngine"

SEARCHING == "searching"

SearchModules == {SEARCH_ENGINE, SEARCHING}

\* The module globals of IndexAndEmbeddingsGeneration.py.
BuildGlobals ==
    [db |-> "CPP_Biology", faculty |-> "FacultyInfo", index |-> "InvertedIndex",
     embeddings |-> "Embeddings", file |-> "tfidf_vectorizer.pkl"]

\* The module globals of SearchEngine.py.
SearchEngineGlobals ==
    [db |-> "CPP3", faculty |-> "FacultyInfo", index |-> "InvertedIndex",
     embeddings |-> "Embeddings", file |-> "tfidf_vectorizer.pkl"]

\* The module globals of searching.py.
SearchingGlobals ==
    [db |-> "CPP3", faculty |-> "faculty_info", index |-> "inverted_index",
     embeddings |-> "embeddings", file |-> "vectorizer.pkl"]

Globals(m) ==
    CASE m = BUILD -> BuildGlobals
      [] m = SEARCH_ENGINE -> SearchEngineGlobals
      [] m = SEARCHING -> SearchingGlobals

\* faculty_collection, inverted_index_collection and embeddings_collection
\* of module m: a collection is a database name and a collection name.
FacultyColl(m) == <<Globals(m).db, Globals(m).faculty>>

IndexColl(m) == <<Globals(m).db, Globals(m).index>>

EmbeddingsColl(m) == <<Globals(m).db, Globals(m).embeddings>>

\* TFIDF_PKL_FILE / VECTORIZER_FILE of module m, in the working directory.
VectorizerFile(m) == Globals(m).file

Modules == {BUILD} \cup SearchModules

\* self.crawledPages of Crawler.py
CrawledPagesColl == <<"CPP_Biology", "CrawledPages">>

Collections ==
    UNION {{FacultyColl(m), IndexColl(m), EmbeddingsColl(m)} : m \in Modules}
        \cup {CrawledPagesColl}

FileNames == {VectorizerFile(m) : m \in Modules}

\* ------------------------------------------------------------ MongoDB
\* str(doc['_id']) and ObjectId(doc_id): an ObjectId and its hex string.
StrOfId(oid) == oid.oid

ObjectId(s) == [oid |-> s]

RECURSIVE FindFirst(_, _, _, _)
FindFirst(coll, field, value, i) ==
    IF i > Len(coll) THEN None
    ELSE IF coll[i][field] = value THEN coll[i]
    ELSE FindFirst(coll, field, value, i + 1)

\* collection.find_one({field: value}): the first document in natural order
\* whose field has the value, or None.
FindOne(coll, field, value) == FindFirst(coll, field, value, 1)

\* ------------------------------------------------------ TfidfVectorizer
\* sklearn's smoothed idf, ln((1 + n) / (1 + df)) + 1, in quarters: 4 stands
\* for 1.0 (a term every document contains).
Idf(n, df) ==
    CASE n = df -> 4
      [] n = 2 /\ df = 1 -> 6
      [] n = 3 /\ df = 1 -> 7
      [] n = 3 /\ df = 2 -> 5
      [] n = 4 /\ df = 1 -> 8
      [] n = 4 /\ df = 2 -> 6
      [] n = 4 /\ df = 3 -> 5
      [] OTHER -> 4

\* The features a fit learns: the non-stop words that occur, in order.
FitVocabulary(documents) ==
    SelectSeq(WordSeq, LAMBDA w :
        w \notin StopWords /\ \E i \in 1..Len(documents) : w \in documents[i])

DocFreq(documents, w) ==
    Cardinality({i \in 1..Len(documents) : w \in documents[i]})

\* vectorizer.fit: None stands for the ValueError sklearn raises on an
\* empty vocabulary (no document, or stop words only).
Fit(documents) ==
    LET vocab == FitVocabulary(documents) IN
    IF Len(vocab) = 0 THEN None
    ELSE [vocabulary |-> vocab,
          idf |-> [k \in 1..Len(vocab) |->
                      Idf(Len(documents), DocFreq(documents, vocab[k]))]]

\* What fit_transform raises on an empty vocabulary: sklearn's
\* ValueError("empty vocabulary; perhaps the documents only contain stop
\* words"), the same for no document as for documents of stop words only.
FitError(documents) ==
    IF Len(FitVocabulary(documents)) = 0 THEN "ValueError: empty vocabulary"
    ELSE ""

\* vectorizer.transform([text]).toarray()[0]: one weight per feature; the
\* vectorizer lower-cases the text (lowercase=True is its default).
Transform(vectorizer, text) ==
    [k \in 1..Len(vectorizer.vocabulary) |->
        IF vectorizer.vocabulary[k] \in {Lower(w) : w \in text}
        THEN vectorizer.idf[k] ELSE 0]

\* vectorizer.inverse_transform(vector)[0]: the features of nonzero weight.
InverseTransform(vectorizer, vector) ==
    SelectSeq(vectorizer.vocabulary, LAMBDA w :
        \E k \in 1..Len(vector) : vectorizer.vocabulary[k] = w /\ vector[k] # 0)

\* pickle.dump and pickle.load.
Pickle(obj) == <<"pickle", obj>>

Unpickle(bytes) == bytes[2]

\* ------------------------------------- IndexAndEmbeddingsGeneration.py
\* fetch_documents: the documents with a non-empty faculty_info.
FetchDocuments(faculty) ==
    LET kept == SelectSeq(faculty, LAMBDA doc : doc.faculty_info # {}) IN
    [documents |-> [i \in 1..Len(kept) |-> kept[i].faculty_info],
     doc_ids |-> [i \in 1..Len(kept) |-> StrOfId(kept[i]._id)]]

\* create_tfidf_matrix: None when fit_transform raises.
CreateTfidfMatrix(documents) ==
    LET vectorizer == Fit(documents) IN
    IF vectorizer = None THEN None
    ELSE [vectorizer |-> vectorizer,
          tfidf_matrix |-> [i \in 1..Len(documents) |->
                               Transform(vectorizer, documents[i])],
          terms |-> vectorizer.vocabulary]

\* The postings of one term without the test "if score > 0": one posting
\* per row.
PostingsOfEveryRow(tfidf_matrix, term_idx, doc_ids) ==
    [j \in 1..Len(doc_ids) |->
        [document_id |-> doc_ids[j],
         tfidf_score |-> tfidf_matrix[j][term_idx]]]

\* The postings of one term: the documents of positive weight, in row order.
Postings(tfidf_matrix, term_idx, doc_ids) ==
    LET rows == SelectSeq([i \in 1..Len(doc_ids) |-> i],
                          LAMBDA i : tfidf_matrix[i][term_idx] > 0) IN
    [j \in 1..Len(rows) |->
        [document_id |-> doc_ids[rows[j]],
         tfidf_score |-> tfidf_matrix[rows[j]][term_idx]]]

\* build_inverted_index: the items of the defaultdict in insertion order; a
\* term is inserted when its first posting is appended.
BuildInvertedIndex(tfidf_matrix, terms, doc_ids) ==
    LET all == [k \in 1..Len(terms) |->
                   [term |-> terms[k],
                    documents |-> Postings(tfidf_matrix, k, doc_ids)]] IN
    SelectSeq(all, LAMBDA e : Len(e.documents) > 0)

\* The Embeddings document of row doc_idx.
EmbeddingEntry(tfidf_matrix, doc_ids, doc_idx) ==
    [document_id |-> doc_ids[doc_idx], tfidf |-> tfidf_matrix[doc_idx]]

\* What one complete run of generate_index_and_store_embeddings leaves in
\* the vectorizer file and the two collections, given FacultyInfo.
BuildOutput(faculty) ==
    LET got == FetchDocuments(faculty)
        made == CreateTfidfMatrix(got.documents)
    IN  [file |-> Pickle(made.vectorizer),
         index |-> BuildInvertedIndex(made.tfidf_matrix, made.terms, got.doc_ids),
         embeddings |-> [i \in 1..Len(got.doc_ids) |->
                            EmbeddingEntry(made.tfidf_matrix, got.doc_ids, i)]]

\* ------------------------------------- SearchEngine.py and searching.py
\* process_query
ProcessQuery(query_sentence, vectorizer) ==
    LET query_vector == Transform(vectorizer, query_sentence) IN
    [query_vector |-> query_vector,
     query_terms |-> InverseTransform(vectorizer, query_vector)]

\* candidate_docs[doc_id] += tfidf_score on a defaultdict(float), kept as the
\* sequence of its items in insertion order.
AddScore(candidate_docs, doc_id, tfidf_score) ==
    IF \E i \in 1..Len(candidate_docs) : candidate_docs[i].doc_id = doc_id
    THEN [i \in 1..Len(candidate_docs) |->
             IF candidate_docs[i].doc_id = doc_id
             THEN [candidate_docs[i] EXCEPT !.score = @ + tfidf_score]
             ELSE candidate_docs[i]]
    ELSE Append(candidate_docs, [doc_id |-> doc_id, score |-> tfidf_score])

RECURSIVE AddPostings(_, _, _)
AddPostings(candidate_docs, documents, j) ==
    IF j > Len(documents) THEN candidate_docs
    ELSE AddPostings(AddScore(candidate_docs, documents[j].document_id,
                              documents[j].tfidf_score),
                     documents, j + 1)

RECURSIVE CollectFrom(_, _, _, _)
CollectFrom(index, query_terms, k, candidate_docs) ==
    IF k > Len(query_terms) THEN candidate_docs
    ELSE LET term_entry == FindOne(index, "term", query_terms[k]) IN
         CollectFrom(index, query_terms, k + 1,
                     IF term_entry # None
                     THEN AddPostings(candidate_docs, term_entry.documents, 1)
                     ELSE candidate_docs)

\* collect_candidate_documents, lookups in the first query term only.
CollectFirstTermOnly(index, query_terms) ==
    IF Len(query_terms) = 0 THEN <<>>
    ELSE CollectFrom(index, <<query_terms[1]>>, 1, <<>>)

\* collect_candidate_documents
CollectCandidateDocuments(index, query_terms) ==
    CollectFrom(index, query_terms, 1, <<>>)

RECURSIVE Dot(_, _, _)
Dot(u, v, k) ==
    IF k > Len(u) THEN 0 ELSE u[k] * v[k] + Dot(u, v, k + 1)

RECURSIVE Gcd(_, _)
Gcd(a, b) == IF b = 0 THEN a ELSE Gcd(b, a % b)

\* sklearn's cosine_similarity of two vectors of non-negative weights, as the
\* fraction num/den that is its square in lowest terms; 0 when a norm is 0.
\* None stands for the ValueError raised when the dimensions differ.
CosineSimilarity(query_vector, embedding) ==
    IF Len(query_vector) # Len(embedding) THEN None
    ELSE LET dot == Dot(query_vector, embedding, 1)
             norms == Dot(query_vector, query_vector, 1)
                          * Dot(embedding, embedding, 1)
             g == Gcd(dot * dot, norms)
         IN  IF norms = 0 THEN [num |-> 0, den |-> 1]
             ELSE [num |-> (dot * dot) \div g, den |-> norms \div g]

\* a.similarity < b.similarity
SimLess(a, b) == a.num * b.den < b.num * a.den

\* fetch_document_details: None stands for the AttributeError raised by
\* faculty_details.get when find_one found no document.
FetchDocumentDetails(faculty, doc_id, similarity) ==
    LET faculty_details == FindOne(faculty, "_id", ObjectId(doc_id)) IN
    IF faculty_details = None THEN None
    ELSE [document_id |-> doc_id, similarity |-> similarity,
          url |-> faculty_details.profile_url,
          summary |-> faculty_details.summary]

\* sorted(results, key=similarity, reverse=True): a stable sort, so results
\* of equal similarity keep the order they had.
InsertSorted(sorted, x) ==
    LET later == {i \in 1..Len(sorted) : SimLess(sorted[i].similarity, x.similarity)}
        at == IF later = {} THEN Len(sorted) + 1
              ELSE CHOOSE i \in later : \A j \in later : i <= j
    IN  SubSeq(sorted, 1, at - 1) \o <<x>> \o SubSeq(sorted, at, Len(sorted))

RECURSIVE SortFrom(_, _, _)
SortFrom(results, i, sorted) ==
    IF i > Len(results) THEN sorted
    ELSE SortFrom(results, i + 1, InsertSorted(sorted, results[i]))

SortedBySimilarity(results) == SortFrom(results, 1, <<>>)

\* The loop of compute_similarity_scores from candidate i on.
RECURSIVE ScoreFrom(_, _, _, _, _, _)
ScoreFrom(query_vector, candidate_docs, embeddings, faculty, i, results) ==
    IF i > Len(candidate_docs) THEN [raised |-> FALSE, results |-> results]
    ELSE LET doc_id == candidate_docs[i].doc_id
             embedding_entry ==
                 FindOne(embeddings, "document_id", doc_id)
         IN  IF embedding_entry = None
             THEN ScoreFrom(query_vector, candidate_docs, embeddings, faculty,
                            i + 1, results)
             ELSE LET similarity ==
                          CosineSimilarity(query_vector, embedding_entry.tfidf)
                      details ==
                          FetchDocumentDetails(faculty, doc_id, similarity)
                  IN  IF similarity = None \/ details = None
                      THEN [raised |-> TRUE, results |-> <<>>]
                      ELSE ScoreFrom(query_vector, candidate_docs, embeddings,
                                     faculty, i + 1, Append(results, details))

\* compute_similarity_scores without its "if embedding_entry:" test: reading
\* embedding_entry["tfidf"] of a missing embedding raises.
ComputeScoresUnguarded(m, query_vector, candidate_docs, embeddings, faculty) ==
    IF \E i \in 1..Len(candidate_docs) :
          FindOne(embeddings, "document_id", candidate_docs[i].doc_id) = None
    THEN [raised |-> TRUE, results |-> <<>>]
    ELSE ScoreFrom(query_vector, candidate_docs, embeddings, faculty, 1, <<>>)

\* compute_similarity_scores that demands a result: it raises when no
\* candidate was scored.
ComputeScoresRequireResult(m, query_vector, candidate_docs, embeddings, faculty) ==
    LET scored == ScoreFrom(query_vector, candidate_docs, embeddings, faculty,
                            1, <<>>) IN
    IF scored.results = <<>> THEN [raised |-> TRUE, results |-> <<>>]
    ELSE scored

\* compute_similarity_scores; SearchEngine.py returns the list sorted.
ComputeSimilarityScores(m, query_vector, candidate_docs, embeddings, faculty) ==
    LET scored == ScoreFrom(query_vector, candidate_docs, embeddings, faculty,
                            1, <<>>) IN
    IF m = SEARCH_ENGINE /\ ~scored.raised
    THEN [scored EXCEPT !.results = SortedBySimilarity(@)]
    ELSE scored

\* searchWithTFIDF of module m against the collections it reads; searching.py
\* sorts here.  The outcome is kept with the arguments and the locals.
SearchOutcome(m, query_sentence, pq, candidate_docs, scored) ==
    [module |-> m,
     query |-> query_sentence,
     raised |-> scored.raised,
     query_terms |-> pq.query_terms,
     candidate_docs |-> candidate_docs,
     results |-> IF m = SEARCHING /\ ~scored.raised
                 THEN SortedBySimilarity(scored.results)
                 ELSE scored.results]

SearchCandidates(m, query_sentence, pq, candidate_docs, embeddings, faculty) ==
    SearchOutcome(m, query_sentence, pq, candidate_docs,
                  ComputeSimilarityScores(m, pq.query_vector, candidate_docs,
                                          embeddings, faculty))

SearchProcessed(m, query_sentence, pq, index, embeddings, faculty) ==
    SearchCandidates(m, query_sentence, pq,
                     CollectCandidateDocuments(index, pq.query_terms),
                     embeddings, faculty)

SearchWithTFIDF(m, query_sentence, vectorizer, index, embeddings, faculty) ==
    SearchProcessed(m, query_sentence, ProcessQuery(query_sentence, vectorizer),
                    index, embeddings, faculty)

\* token.lemma_ of spaCy for the words of the model.
Lemma(w) == IF w = Inflected THEN "cell" ELSE w

\* lemmatize_query: the lemmas of the tokens that are not stop words.
LemmatizeQuery(query) == {Lemma(w) : w \in query \ StopWords}

\* check_spelling: the correction of each unknown word.  spell.unknown
\* lower-cases the words it is given and returns the unknown ones so.
CheckSpelling(query) ==
    [w \in {Lower(x) : x \in query} \cap {Misspelled} |-> "biology"]

\* The loop of query.replace(word, suggestion) over the corrections:
\* str.replace matches the word as spelled, case included.
ApplyCorrections(query, corrections) ==
    {IF w \in DOMAIN corrections THEN corrections[w] ELSE w : w \in query}

\* page_size of paginate_and_display_results
PageSize == 5

\* paginate_results with total_pages rounded down.
PaginateFloor(results, page, page_size) ==
    LET start_idx == page * page_size
        end_idx == start_idx + page_size
        last == IF end_idx < Len(results) THEN end_idx ELSE Len(results)
    IN  [window |-> SubSeq(results, start_idx + 1, last),
         total_pages |-> Len(results) \div page_size]

\* paginate_results with the slice results[start_idx:end_idx + 1].
PaginateInclusiveEnd(results, page, page_size) ==
    LET start_idx == page * page_size
        end_idx == start_idx + page_size + 1
        last == IF end_idx < Len(results) THEN end_idx ELSE Len(results)
    IN  [window |-> SubSeq(results, start_idx + 1, last),
         total_pages |-> (Len(results) + page_size - 1) \div page_size]

\* paginate_results that clamps the page to the last one.
PaginateClamped(results, page, page_size) ==
    LET total_pages == (Len(results) + page_size - 1) \div page_size
        clamped == IF page >= total_pages /\ total_pages > 0
                   THEN total_pages - 1 ELSE page
        start_idx == clamped * page_size
        end_idx == start_idx + page_size
        last == IF end_idx < Len(results) THEN end_idx ELSE Len(results)
    IN  [window |-> SubSeq(results, start_idx + 1, last),
         total_pages |-> total_pages]

\* paginate_results
PaginateResults(results, page, page_size) ==
    LET start_idx == page * page_size
        end_idx == start_idx + page_size
        last == IF end_idx < Len(results) THEN end_idx ELSE Len(results)
    IN  [window |-> SubSeq(results, start_idx + 1, last),
         total_pages |-> (Len(results) + page_size - 1) \div page_size]

\* --------------------------------------------------------------- state
VARIABLES
    db,        \* the MongoDB server: collection -> its documents in order
    files,     \* the working directory: file name -> bytes, or NoFile
    bpc,       \* where generate_index_and_store_embeddings stands
    bl,        \* its locals
    snap,      \* history: the published outputs when the build started
    spc,       \* where a call of searchWithTFIDF stands
    sl,        \* the call: its module, its query, its locals and its result
    cpc,       \* where the console program stands
    con,       \* the console: its module and the locals of its loops
    ppc,       \* where a caller of paginate_results stands
    pl,        \* the caller: its results and page size, and the last call
    kpc,       \* where Crawler.crawl stands
    kl,        \* the crawler: its frontier, its visited set and its locals
    web        \* the site crawled: the links, targets and nav links of a page

buildVars == <<bpc, bl, snap>>

searchVars == <<spc, sl>>

consoleVars == <<cpc, con>>

pageVars == <<ppc, pl>>

crawlVars == <<kpc, kl, web>>

vars == <<db, files, bpc, bl, snap, spc, sl, cpc, con, ppc, pl, kpc, kl, web>>

\* line, use_suggestion and action are history: what the user typed at the
\* query prompt, at the (y/n) prompt and, last, at the pagination menu.  said
\* is the last message printed.
NoConsole ==
    [module |-> "", query |-> {}, lemmatized_query |-> {}, results |-> <<>>,
     page |-> 0, line |-> {}, use_suggestion |-> "", said |-> "",
     action |-> ""]

NoCall ==
    [module |-> "", query |-> {}, raised |-> FALSE, query_terms |-> <<>>,
     candidate_docs |-> <<>>, results |-> <<>>]

\* One FacultyInfo document as facultyParser.prepare_faculty_data writes it.
FacultyDoc(d, text) ==
    [_id |-> ObjectId(d), faculty_info |-> text, profile_url |-> d, summary |-> d]

NoLocals ==
    [documents |-> <<>>, doc_ids |-> <<>>, vectorizer |-> None,
     tfidf_matrix |-> <<>>, terms |-> <<>>, inverted_index |-> <<>>, next |-> 0,
     error |-> "", raised_in |-> ""]

\* What a build publishes, as a reader of the build's database finds it.
Published ==
    [index |-> db[IndexColl(BUILD)],
     embeddings |-> db[EmbeddingsColl(BUILD)],
     file |-> files[VectorizerFile(BUILD)]]

\* The corpora FacultyInfo may hold: some of the documents 1..MaxDocs, each
\* with some text, in the order of their ids.
Corpora ==
    UNION {[ids -> Texts] : ids \in SUBSET DocNums}

FacultyOf(c) ==
    LET ids == SelectSeq([d \in DocNums |-> d], LAMBDA d : d \in DOMAIN c) IN
    [i \in 1..Len(ids) |-> FacultyDoc(ids[i], c[ids[i]])]

EmptyDb == [c \in Collections |-> <<>>]

NoPage == [results |-> <<>>, page_size |-> 0, page |-> 0, window |-> <<>>,
           total_pages |-> 0, next |-> 0, shown |-> <<>>]

NoCrawl == [frontier |-> <<>>, visited |-> {}, num_targets |-> 0,
            targets_found |-> 0, url |-> ""]

NoWeb == <<>>

\* Neither a caller of paginate_results nor a crawl is running.
OtherProgramsOff ==
    /\ ppc = "off"
    /\ pl = NoPage
    /\ kpc = "off"
    /\ kl = NoCrawl
    /\ web = NoWeb

Init ==
    /\ \E c \in Corpora :
          db = [EmptyDb EXCEPT ![FacultyColl(BUILD)] = FacultyOf(c)]
    /\ files = [f \in FileNames |-> NoFile]
    /\ bpc = "idle"
    /\ bl = NoLocals
    /\ snap = Published
    /\ spc = "idle"
    /\ sl = NoCall
    /\ cpc = "off"
    /\ con = NoConsole
    /\ OtherProgramsOff

\* -------------------------------- generate_index_and_store_embeddings
\* documents, doc_ids = fetch_documents()
BuildFetch ==
    /\ bpc = "idle"
    /\ LET got == FetchDocuments(db[FacultyColl(BUILD)]) IN
         bl' = [NoLocals EXCEPT !.documents = got.documents,
                                !.doc_ids = got.doc_ids]
    /\ snap' = Published
    /\ bpc' = "fetched"
    /\ UNCHANGED <<db, files>>
    /\ UNCHANGED <<searchVars, consoleVars, pageVars, crawlVars>>

\* vectorizer, tfidf_matrix, terms = create_tfidf_matrix(documents)
BuildTrain ==
    /\ bpc = "fetched"
    /\ LET made == CreateTfidfMatrix(bl.documents) IN
         IF made = None
         THEN /\ bpc' = "failed"
              /\ bl' = [NoLocals EXCEPT !.error = FitError(bl.documents),
                                       !.raised_in = "create_tfidf_matrix"]
         ELSE /\ bpc' = "trained"
              /\ bl' = [bl EXCEPT !.vectorizer = made.vectorizer,
                                  !.tfidf_matrix = made.tfidf_matrix,
                                  !.terms = made.terms]
    /\ UNCHANGED <<db, files, snap>>
    /\ UNCHANGED <<searchVars, consoleVars, pageVars, crawlVars>>

\* save_vectorizer(vectorizer), then build_inverted_index(...)
BuildSaveVectorizer ==
    /\ bpc = "trained"
    /\ files' = [files EXCEPT ![VectorizerFile(BUILD)] = Pickle(bl.vectorizer)]
    /\ bl' = [bl EXCEPT !.inverted_index =
                  BuildInvertedIndex(bl.tfidf_matrix, bl.terms, bl.doc_ids)]
    /\ bpc' = "index_delete"
    /\ UNCHANGED <<db, snap>>
    /\ UNCHANGED <<searchVars, consoleVars, pageVars, crawlVars>>

\* store_inverted_index: inverted_index_collection.delete_many({})
StoreIndexDelete ==
    /\ bpc = "index_delete"
    /\ db' = [db EXCEPT ![IndexColl(BUILD)] = <<>>]
    /\ bl' = [bl EXCEPT !.next = 1]
    /\ bpc' = "index_insert"
    /\ UNCHANGED <<files, snap>>
    /\ UNCHANGED <<searchVars, consoleVars, pageVars, crawlVars>>

\* store_inverted_index: one turn of the insert_one loop, or its end
StoreIndexInsert ==
    /\ bpc = "index_insert"
    /\ IF bl.next <= Len(bl.inverted_index)
       THEN /\ db' = [db EXCEPT ![IndexColl(BUILD)] =
                         Append(@, bl.inverted_index[bl.next])]
            /\ bl' = [bl EXCEPT !.next = @ + 1]
            /\ bpc' = bpc
       ELSE /\ bpc' = "embeddings_delete"
            /\ UNCHANGED <<db, bl>>
    /\ UNCHANGED <<files, snap>>
    /\ UNCHANGED <<searchVars, consoleVars, pageVars, crawlVars>>

\* store_document_embeddings without its delete_many: the new embeddings are
\* inserted after the old ones.
StoreEmbeddingsKeepOld ==
    /\ bpc = "embeddings_delete"
    /\ bl' = [bl EXCEPT !.next = 1]
    /\ bpc' = "embeddings_insert"
    /\ UNCHANGED <<db, files, snap>>
    /\ UNCHANGED <<searchVars, consoleVars, pageVars, crawlVars>>

\* store_document_embeddings: embeddings_collection.delete_many({})
StoreEmbeddingsDelete ==
    /\ bpc = "embeddings_delete"
    /\ db' = [db EXCEPT ![EmbeddingsColl(BUILD)] = <<>>]
    /\ bl' = [bl EXCEPT !.next = 1]
    /\ bpc' = "embeddings_insert"
    /\ UNCHANGED <<files, snap>>
    /\ UNCHANGED <<searchVars, consoleVars, pageVars, crawlVars>>

\* store_document_embeddings: one turn of the insert_one loop, or its end
StoreEmbeddingsInsert ==
    /\ bpc = "embeddings_insert"
    /\ IF bl.next <= Len(bl.doc_ids)
       THEN /\ db' = [db EXCEPT ![EmbeddingsColl(BUILD)] =
                         Append(@, EmbeddingEntry(bl.tfidf_matrix, bl.doc_ids, bl.next))]
            /\ bl' = [bl EXCEPT !.next = @ + 1]
            /\ bpc' = bpc
       ELSE /\ bpc' = "done"
            /\ bl' = NoLocals
            /\ UNCHANGED db
    /\ UNCHANGED <<files, snap>>
    /\ UNCHANGED <<searchVars, consoleVars, pageVars, crawlVars>>

\* The steps that open the file or call the database server: each can raise
\* (OSError, pymongo's ConnectionFailure), which nothing catches.
IoSteps ==
    {"trained", "index_delete", "index_insert", "embeddings_delete",
     "embeddings_insert"}

BuildIoError ==
    /\ bpc \in IoSteps
    /\ bpc' = "failed"
    /\ bl' = [NoLocals EXCEPT
                 !.error = IF bpc = "trained" THEN "OSError" ELSE "PyMongoError",
                 !.raised_in = CASE bpc = "trained" -> "save_vectorizer"
                                 [] bpc \in {"index_delete", "index_insert"}
                                      -> "store_inverted_index"
                                 [] OTHER -> "store_document_embeddings"]
    /\ UNCHANGED <<db, files, snap>>
    /\ UNCHANGED <<searchVars, consoleVars, pageVars, crawlVars>>

\* ----------------------------------------------------- the environment
\* Between two builds the corpus changes by one document: facultyParser.py
\* inserts one, or Lemmatizer.py rewrites the faculty_info of one (an empty
\* text takes the document out of the next build).  The build is then run
\* again.
CorpusInsert ==
    /\ bpc = "done"
    /\ \E d \in DocNums, text \in Texts :
          /\ \A i \in 1..Len(db[FacultyColl(BUILD)]) :
                StrOfId(db[FacultyColl(BUILD)][i]._id) < d
          /\ db' = [db EXCEPT ![FacultyColl(BUILD)] =
                       Append(@, FacultyDoc(d, text))]
    /\ bpc' = "idle"
    /\ UNCHANGED <<files, bl, snap>>
    /\ UNCHANGED <<searchVars, consoleVars, pageVars, crawlVars>>

CorpusUpdate ==
    /\ bpc = "done"
    /\ \E i \in 1..Len(db[FacultyColl(BUILD)]), text \in Texts :
          /\ text # db[FacultyColl(BUILD)][i].faculty_info
          /\ db' = [db EXCEPT ![FacultyColl(BUILD)][i].faculty_info = text]
    /\ bpc' = "idle"
    /\ UNCHANGED <<files, bl, snap>>
    /\ UNCHANGED <<searchVars, consoleVars, pageVars, crawlVars>>

Next ==
    \/ BuildFetch
    \/ BuildTrain
    \/ BuildSaveVectorizer
    \/ StoreIndexDelete
    \/ StoreIndexInsert
    \/ StoreEmbeddingsDelete
    \/ StoreEmbeddingsInsert
    \/ BuildIoError
    \/ CorpusInsert
    \/ CorpusUpdate

Spec == Init /\ [][Next]_vars

\* ------------------------------------------------ claims about the build
\* The index and the embeddings the running build is publishing.
NewIndex == bl.inverted_index

NewEmbeddings ==
    [i \in 1..Len(bl.doc_ids) |-> EmbeddingEntry(bl.tfidf_matrix, bl.doc_ids, i)]

Storing ==
    bpc \in {"index_delete", "index_insert", "embeddings_delete",
             "embeddings_insert"}

\* C1: at every point of a rebuild a reader of the InvertedIndex and
\* Embeddings collections finds either the complete old index with the
\* complete old embeddings, or the complete new index with the complete new
\* embeddings.
C1_AtomicPublication ==
    Storing =>
        \/ /\ db[IndexColl(BUILD)] = snap.index
           /\ db[EmbeddingsColl(BUILD)] = snap.embeddings
        \/ /\ db[IndexColl(BUILD)] = NewIndex
           /\ db[EmbeddingsColl(BUILD)] = NewEmbeddings

\* The Embeddings documents of one document id.
EmbeddingsOf(doc_id) ==
    {j \in 1..Len(db[EmbeddingsColl(BUILD)]) :
        db[EmbeddingsColl(BUILD)][j].document_id = doc_id}

\* C3: after generate_index_and_store_embeddings has completed, every
\* document_id of a posting of the stored index has exactly one entry in the
\* Embeddings collection.
C3_PostingsHaveOneEmbedding ==
    bpc = "done" =>
        \A k \in 1..Len(db[IndexColl(BUILD)]) :
            \A j \in 1..Len(db[IndexColl(BUILD)][k].documents) :
                Cardinality(EmbeddingsOf(
                    db[IndexColl(BUILD)][k].documents[j].document_id)) = 1

\* A second build has completed over a corpus of two documents that share
\* a term, replacing an index and embeddings that were not empty.
C3_Witness ==
    /\ bpc = "done"
    /\ Len(snap.index) > 0
    /\ Len(snap.embeddings) > 0
    /\ \E k \in 1..Len(db[IndexColl(BUILD)]) :
          Len(db[IndexColl(BUILD)][k].documents) >= 2

\* C7: when a build has failed, the saved vectorizer file, the InvertedIndex
\* collection and the Embeddings collection are as they were when the build
\* started.
C7_FailedBuildPublishesNothing ==
    bpc = "failed" => Published = snap

\* The postings of document row i in the list of term t of the built index,
\* as pairs of an index entry and a position in its list.
PostingsFor(i, t) ==
    {p \in (1..Len(bl.inverted_index)) \X (1..Len(bl.doc_ids)) :
        /\ bl.inverted_index[p[1]].term = bl.terms[t]
        /\ p[2] <= Len(bl.inverted_index[p[1]].documents)
        /\ bl.inverted_index[p[1]].documents[p[2]].document_id = bl.doc_ids[i]}

\* The matrix row of a document id.
RowOf(doc_id) == CHOOSE i \in 1..Len(bl.doc_ids) : bl.doc_ids[i] = doc_id

\* C18: the index build_inverted_index returns has, for every document and
\* term of weight > 0, exactly one posting in the term's list, with the
\* document's id and that weight; it has no posting for a weight of 0, no
\* other posting, and every list is in matrix row order.
C18_OnePostingPerPositiveWeight ==
    Storing =>
        /\ \A i \in 1..Len(bl.doc_ids), t \in 1..Len(bl.terms) :
              IF bl.tfidf_matrix[i][t] > 0
              THEN /\ Cardinality(PostingsFor(i, t)) = 1
                   /\ \A p \in PostingsFor(i, t) :
                         bl.inverted_index[p[1]].documents[p[2]].tfidf_score
                             = bl.tfidf_matrix[i][t]
              ELSE PostingsFor(i, t) = {}
        /\ \A k \in 1..Len(bl.inverted_index) :
              /\ \E t \in 1..Len(bl.terms) : bl.inverted_index[k].term = bl.terms[t]
              /\ \A j \in 1..Len(bl.inverted_index[k].documents) :
                    \E i \in 1..Len(bl.doc_ids) :
                        bl.inverted_index[k].documents[j].document_id = bl.doc_ids[i]
              /\ \A j1, j2 \in 1..Len(bl.inverted_index[k].documents) :
                    j1 < j2 =>
                        RowOf(bl.inverted_index[k].documents[j1].document_id)
                            < RowOf(bl.inverted_index[k].documents[j2].document_id)

\* An index has been built over two documents that share one term and
\* differ in another: a list of two postings, and a weight of 0.
C18_Witness ==
    /\ bpc = "index_delete"
    /\ \E k \in 1..Len(bl.inverted_index) :
          Len(bl.inverted_index[k].documents) = 2
    /\ \E i \in 1..Len(bl.doc_ids), t \in 1..Len(bl.terms) :
          bl.tfidf_matrix[i][t] = 0

\* C12: training on no document fails with EmptyCorpusError, and training on
\* documents whose every term is filtered out fails with EmptyVocabularyError,
\* so the exception tells the caller which of the two happened.
C12_TrainingFailuresAreDistinct ==
    (bpc = "failed" /\ bl.raised_in = "create_tfidf_matrix") =>
        bl.error = IF FetchDocuments(db[FacultyColl(BUILD)]).documents = <<>>
                   THEN "EmptyCorpusError"
                   ELSE "EmptyVocabularyError"

\* C8: after a successful build, the vectorizer file a search module loads
\* and the index, embeddings and document collections it reads hold what
\* the build wrote and read.
C8_BuildOutputsAreQueryInputs ==
    bpc = "done" =>
        \A m \in SearchModules :
            /\ files[VectorizerFile(m)] = files[VectorizerFile(BUILD)]
            /\ db[IndexColl(m)] = db[IndexColl(BUILD)]
            /\ db[EmbeddingsColl(m)] = db[EmbeddingsColl(BUILD)]
            /\ db[FacultyColl(m)] = db[FacultyColl(BUILD)]

\* ------------------------------------------------------------ searching
\* The corpora a build succeeds on.
IndexableCorpora ==
    {c \in Corpora : Fit(FetchDocuments(FacultyOf(c)).documents) # None}

\* The query sentences searchWithTFIDF is given: lemmatized text, which may
\* hold a word the vocabulary lacks.
Queries == SUBSET (Terms \cup {OovWord})

\* The collections the search modules read hold the output of a build over
\* some corpus, less what has gone missing since: index entries and
\* embeddings (an interrupted rebuild leaves either collection emptied or
\* partly refilled) and FacultyInfo documents (removed on the server).
InitSearch ==
    /\ \E c \in IndexableCorpora :
       \E lostDocs \in SUBSET DOMAIN c, lostEmbeddings \in SUBSET DOMAIN c,
          lostTerms \in SUBSET Terms :
          LET out == BuildOutput(FacultyOf(c))
              faculty == SelectSeq(FacultyOf(c),
                             LAMBDA d : StrOfId(d._id) \notin lostDocs)
              index == SelectSeq(out.index, LAMBDA e : e.term \notin lostTerms)
              embeddings == SelectSeq(out.embeddings,
                                LAMBDA e : e.document_id \notin lostEmbeddings)
          IN  /\ db = [coll \in Collections |->
                          CASE \E m \in SearchModules : coll = FacultyColl(m)
                                 -> faculty
                            [] \E m \in SearchModules : coll = IndexColl(m)
                                 -> index
                            [] \E m \in SearchModules : coll = EmbeddingsColl(m)
                                 -> embeddings
                            [] OTHER -> <<>>]
              /\ files = [f \in FileNames |-> out.file]
    /\ bpc = "idle"
    /\ bl = NoLocals
    /\ snap = Published
    /\ spc = "idle"
    /\ sl = NoCall
    /\ cpc = "off"
    /\ con = NoConsole
    /\ OtherProgramsOff

\* load_vectorizer of module m
LoadVectorizer(m) ==
    IF files[VectorizerFile(m)] = NoFile THEN None
    ELSE Unpickle(files[VectorizerFile(m)])

\* searchWithTFIDF(query_sentence, vectorizer) in module m, as called.
CallSearch(m, query_sentence) ==
    SearchWithTFIDF(m, query_sentence, LoadVectorizer(m), db[IndexColl(m)],
                    db[EmbeddingsColl(m)], db[FacultyColl(m)])

\* One call of searchWithTFIDF: it returns its results or raises.
SearchCall ==
    /\ spc = "idle"
    /\ \E m \in SearchModules, q \in Queries :
          /\ LoadVectorizer(m) # None
          /\ sl' = CallSearch(m, q)
          /\ spc' = IF sl'.raised THEN "raised" ELSE "returned"
    /\ UNCHANGED <<db, files, buildVars, pageVars, crawlVars, consoleVars>>

\* The caller goes on to its next call.
SearchOver ==
    /\ spc \in {"returned", "raised"}
    /\ spc' = "idle"
    /\ sl' = NoCall
    /\ UNCHANGED <<db, files, buildVars, pageVars, crawlVars, consoleVars>>

NextSearch ==
    \/ SearchCall
    \/ SearchOver

SpecSearch == InitSearch /\ [][NextSearch]_vars

\* ------------------------------------------------ claims about a search
\* What the call in sl read.
CallIndex == db[IndexColl(sl.module)]

CallEmbeddings == db[EmbeddingsColl(sl.module)]

CallFaculty == db[FacultyColl(sl.module)]

ResultIds == {sl.results[i].document_id : i \in 1..Len(sl.results)}

CandidateIds == {sl.candidate_docs[i].doc_id : i \in 1..Len(sl.candidate_docs)}

\* C2: the results are in descending order of similarity, and results of
\* equal similarity are in ascending order of document id.
C2_RankedBySimilarityThenId ==
    spc = "returned" =>
        \A i, j \in 1..Len(sl.results) :
            i < j =>
                \/ SimLess(sl.results[j].similarity, sl.results[i].similarity)
                \/ /\ sl.results[j].similarity = sl.results[i].similarity
                   /\ sl.results[i].document_id < sl.results[j].document_id

\* The query terms the vectorizer recognizes.
RecognizedTerms ==
    {w \in sl.query :
        \E k \in 1..Len(LoadVectorizer(sl.module).vocabulary) :
            LoadVectorizer(sl.module).vocabulary[k] = w}

\* C4: the candidates are exactly the documents that a recognized query
\* term has a posting for; a term without an index entry adds none.
C4_CandidatesAreUnionOfPostings ==
    spc \in {"returned", "raised"} =>
        CandidateIds =
            {d \in DocNums :
                \E w \in RecognizedTerms :
                \E k \in 1..Len(CallIndex) :
                    /\ CallIndex[k].term = w
                    /\ \E j \in 1..Len(CallIndex[k].documents) :
                          CallIndex[k].documents[j].document_id = d}

\* A call with two recognized terms, the first without an index entry, the
\* second with postings.
C4_Witness ==
    /\ spc = "returned"
    /\ Len(sl.query_terms) = 2
    /\ \A k \in 1..Len(CallIndex) : CallIndex[k].term # sl.query_terms[1]
    /\ CandidateIds # {}

HasEmbedding(doc_id) ==
    \E k \in 1..Len(CallEmbeddings) : CallEmbeddings[k].document_id = doc_id

HasDocument(doc_id) ==
    \E k \in 1..Len(CallFaculty) : CallFaculty[k]._id = ObjectId(doc_id)

C6_SearchNeverRaises ==
    spc # "raised"

\* No term of the query has a posting in the index the call read.
NoQueryTermHasPostings ==
    \A w \in sl.query :
    \A k \in 1..Len(CallIndex) :
        CallIndex[k].term = w => CallIndex[k].documents = <<>>

\* C11: when no query term has a posting (a query of out-of-vocabulary words
\* included), or no candidate has an embedding, the search returns the empty
\* list and does not raise.
C11_NothingFoundIsEmptyResult ==
    (/\ spc \in {"returned", "raised"}
     /\ \/ NoQueryTermHasPostings
        \/ \A d \in CandidateIds : ~HasEmbedding(d))
        => (spc = "returned" /\ sl.results = <<>>)

\* A search over recognized terms has found candidates, none of which has an
\* embedding, and has returned the empty list.
C11_Witness ==
    /\ spc = "returned"
    /\ Len(sl.query_terms) >= 1
    /\ CandidateIds # {}
    /\ \A d \in CandidateIds : ~HasEmbedding(d)
    /\ sl.results = <<>>

\* ---------------------------------------------------------- the consoles
\* search_console of SearchEngine.py, or main_interface of searching.py,
\* is started next to collections that hold the output of a build; the
\* vectorizer file may be missing.
InitConsole ==
    /\ \E c \in IndexableCorpora, saved \in BOOLEAN :
          LET out == BuildOutput(FacultyOf(c)) IN
          /\ db = [coll \in Collections |->
                      CASE \E m \in SearchModules : coll = FacultyColl(m)
                             -> FacultyOf(c)
                        [] \E m \in SearchModules : coll = IndexColl(m)
                             -> out.index
                        [] \E m \in SearchModules : coll = EmbeddingsColl(m)
                             -> out.embeddings
                        [] OTHER -> <<>>]
          /\ files = [f \in FileNames |-> IF saved THEN out.file ELSE NoFile]
    /\ bpc = "idle"
    /\ bl = NoLocals
    /\ snap = Published
    /\ spc = "idle"
    /\ sl = NoCall
    /\ cpc = "start"
    /\ \E m \in SearchModules : con = [NoConsole EXCEPT !.module = m]
    /\ OtherProgramsOff

\* Where the program stands when a query is over: search_console loops to
\* its prompt, handle_query returns to the menu of main_interface.
AfterQuery(m) == IF m = SEARCH_ENGINE THEN "prompt" ELSE "menu"

\* The console between two queries: the locals of the last one are dead.
Idle(m) == [NoConsole EXCEPT !.module = m]

\* vectorizer = load_vectorizer(); if not vectorizer: return
ConsoleLoadVectorizer ==
    /\ cpc = "start"
    /\ cpc' = IF LoadVectorizer(con.module) = None THEN "exit"
              ELSE AfterQuery(con.module)
    /\ UNCHANGED <<db, files, buildVars, pageVars, crawlVars, searchVars, con>>

\* main_interface: one turn of the menu loop
ConsoleMenu ==
    /\ cpc = "menu"
    /\ \E choice \in {"1", "2", "x"} :
          /\ cpc' = CASE choice = "2" -> "exit"
                      [] choice = "1" -> "prompt"
                      [] OTHER -> "menu"
          /\ con' = [con EXCEPT !.said = CASE choice = "2" -> "goodbye"
                                           [] choice = "1" -> ""
                                           [] OTHER -> "invalid choice"]
    /\ UNCHANGED <<db, files, buildVars, pageVars, crawlVars, searchVars>>

\* The query prompt.  search_console strips the line and quits on q;
\* handle_query strips and lower-cases it and returns on an empty query.
ConsoleReadQuery ==
    /\ cpc = "prompt"
    /\ \E line \in SUBSET RawWords :
          IF con.module = SEARCH_ENGINE
          THEN IF {Lower(w) : w \in line} = {"q"}
               THEN /\ cpc' = "exit"
                    /\ con' = [con EXCEPT !.said = "goodbye"]
               ELSE /\ cpc' = "spellcheck"
                    /\ con' = [con EXCEPT !.query = line, !.line = line,
                                          !.said = ""]
          ELSE IF {Lower(w) : w \in line} = {}
               THEN /\ cpc' = "menu"
                    /\ con' = [con EXCEPT !.said = "query cannot be empty"]
               ELSE /\ cpc' = "spellcheck"
                    /\ con' = [con EXCEPT !.query = {Lower(w) : w \in line},
                                          !.line = line, !.said = ""]
    /\ UNCHANGED <<db, files, buildVars, pageVars, crawlVars, searchVars>>

\* query = process_query_with_spellcheck(query)
ConsoleSpellcheck ==
    /\ cpc = "spellcheck"
    /\ LET corrections == CheckSpelling(con.query) IN
         IF DOMAIN corrections # {}
         THEN \E use_suggestion \in {"y", "n"} :
                 con' = [con EXCEPT !.query =
                            IF use_suggestion = "y"
                            THEN ApplyCorrections(@, corrections) ELSE @,
                                    !.use_suggestion = use_suggestion]
         ELSE con' = con
    /\ cpc' = "lemmatize"
    /\ UNCHANGED <<db, files, buildVars, pageVars, crawlVars, searchVars>>

\* lemmatized_query = lemmatize_query(query)
ConsoleLemmatize ==
    /\ cpc = "lemmatize"
    /\ con' = [con EXCEPT !.lemmatized_query = LemmatizeQuery(con.query)]
    /\ cpc' = "search"
    /\ UNCHANGED <<db, files, buildVars, pageVars, crawlVars, searchVars>>

\* The search step with a searchWithTFIDF that caches the query vector as
\* an embedding of the collection it reads.
ConsoleSearchCaching ==
    /\ cpc = "search"
    /\ sl' = CallSearch(con.module, con.lemmatized_query)
    /\ con' = [con EXCEPT !.results = sl'.results]
    /\ cpc' = IF sl'.raised THEN "crashed"
              ELSE IF sl'.results = <<>> THEN "no_results"
              ELSE "paging"
    /\ db' = [db EXCEPT ![EmbeddingsColl(con.module)] =
                 Append(@, [document_id |-> "query",
                            tfidf |-> Transform(LoadVectorizer(con.module),
                                                con.lemmatized_query)])]
    /\ UNCHANGED <<files, buildVars, pageVars, crawlVars, spc>>

\* results = searchWithTFIDF(lemmatized_query, vectorizer), then the test
\* "if not results".  sl keeps the call.
ConsoleSearch ==
    /\ cpc = "search"
    /\ sl' = CallSearch(con.module, con.lemmatized_query)
    /\ con' = [con EXCEPT !.results = sl'.results]
    /\ cpc' = IF sl'.raised THEN "crashed"
              ELSE IF sl'.results = <<>> THEN "no_results"
              ELSE "paging"
    /\ UNCHANGED <<db, files, buildVars, pageVars, crawlVars, spc>>

\* print("No relevant results found for your query."), then continue or
\* return
ConsoleNoResults ==
    /\ cpc = "no_results"
    /\ cpc' = AfterQuery(con.module)
    /\ con' = [Idle(con.module) EXCEPT !.said = "no relevant results"]
    /\ sl' = NoCall
    /\ UNCHANGED <<db, files, buildVars, pageVars, crawlVars, spc>>

\* One turn of the loop of paginate_and_display_results with "n" and "p"
\* taken as they come, without the tests on the page.
ConsolePageUnchecked ==
    /\ cpc = "paging"
    /\ \E action \in {"n", "p", "r", "q", "x"} :
          CASE action = "n" ->
                 /\ con' = [con EXCEPT !.page = @ + 1, !.said = "",
                                       !.action = action]
                 /\ cpc' = cpc
                 /\ sl' = sl
            [] action = "p" ->
                 /\ con' = [con EXCEPT !.page = @ - 1, !.said = "",
                                       !.action = action]
                 /\ cpc' = cpc
                 /\ sl' = sl
            [] action = "r" ->
                 /\ con' = Idle(con.module)
                 /\ cpc' = AfterQuery(con.module)
                 /\ sl' = NoCall
            [] action = "q" ->
                 /\ con' = [Idle(con.module) EXCEPT !.said = "goodbye"]
                 /\ cpc' = IF con.module = SEARCH_ENGINE THEN "exit"
                           ELSE AfterQuery(con.module)
                 /\ sl' = NoCall
            [] OTHER ->
                 /\ con' = [con EXCEPT !.said = "invalid choice",
                                       !.action = action]
                 /\ cpc' = cpc
                 /\ sl' = sl
    /\ UNCHANGED <<db, files, buildVars, pageVars, crawlVars, spc>>

\* paginate_and_display_results: one turn of its loop
ConsolePage ==
    /\ cpc = "paging"
    /\ LET total_pages ==
             PaginateResults(con.results, con.page, PageSize).total_pages IN
       \E action \in {"n", "p", "r", "q", "x"} :
          CASE action = "n" /\ con.page < total_pages - 1 ->
                 /\ con' = [con EXCEPT !.page = @ + 1, !.said = "",
                                       !.action = action]
                 /\ cpc' = cpc
                 /\ sl' = sl
            [] action = "p" /\ con.page > 0 ->
                 /\ con' = [con EXCEPT !.page = @ - 1, !.said = "",
                                       !.action = action]
                 /\ cpc' = cpc
                 /\ sl' = sl
            [] action = "r" ->
                 /\ con' = Idle(con.module)
                 /\ cpc' = AfterQuery(con.module)
                 /\ sl' = NoCall
            [] action = "q" ->
                 /\ con' = [Idle(con.module) EXCEPT !.said = "goodbye"]
                 /\ cpc' = IF con.module = SEARCH_ENGINE THEN "exit"
                           ELSE AfterQuery(con.module)
                 /\ sl' = NoCall
            [] OTHER ->
                 /\ con' = [con EXCEPT !.said = "invalid choice",
                                       !.action = action]
                 /\ cpc' = cpc
                 /\ sl' = sl
    /\ UNCHANGED <<db, files, buildVars, pageVars, crawlVars, spc>>

NextConsole ==
    \/ ConsoleLoadVectorizer
    \/ ConsoleMenu
    \/ ConsoleReadQuery
    \/ ConsoleSpellcheck
    \/ ConsoleLemmatize
    \/ ConsoleSearch
    \/ ConsoleNoResults
    \/ ConsolePage

SpecConsole == InitConsole /\ [][NextConsole]_vars

\* ----------------------------------------------- claims about a console
\* C10: a query that is empty once it has been lemmatized is rejected: it is
\* never given to searchWithTFIDF.
C10_EmptyQueryNotSearched ==
    cpc = "search" => con.lemmatized_query # {}

\* The query the four steps give in their order: the line trimmed and
\* lower-cased, the corrections applied if the user accepted them, the
\* lemmas of what remains.
QueryInFixedOrder ==
    LET lowered == {Lower(w) : w \in con.line}
        corrected == IF con.use_suggestion = "y"
                     THEN ApplyCorrections(lowered, CheckSpelling(lowered))
                     ELSE lowered
    IN  LemmatizeQuery(corrected)

\* C16: the query searched is the raw line (1) trimmed and lower-cased, (2)
\* with the accepted spelling corrections applied, (3) lemmatized, and (4)
\* given to searchWithTFIDF, in that order with no step left out, in both
\* consoles.
C16_QueryStepsInFixedOrder ==
    cpc \in {"paging", "no_results", "crashed"} => sl.query = QueryInFixedOrder

C20_QuitEndsTheSession ==
    con.said = "goodbye" => cpc = "exit"

\* ------------------------------------------ paginate_and_display_results
\* paginate_and_display_results(results) is entered, in either module, with
\* a result list that is not empty (both callers test "if not results").
InitPaging ==
    /\ db = EmptyDb
    /\ files = [f \in FileNames |-> NoFile]
    /\ bpc = "idle"
    /\ bl = NoLocals
    /\ snap = Published
    /\ spc = "idle"
    /\ sl = NoCall
    /\ cpc = "paging"
    /\ \E m \in SearchModules, n \in 1..MaxHits :
          con = [Idle(m) EXCEPT !.results = [i \in 1..n |-> i]]
    /\ OtherProgramsOff

NextPaging ==
    \/ ConsolePage

SpecPaging == InitPaging /\ [][NextPaging]_vars

\* What the loop shows at the top of its next turn.
ShownPage == PaginateResults(con.results, con.page, PageSize)

\* C23: in the pagination loop over a result list that is not empty the page
\* stays within 0 .. total_pages - 1 and the window shown is never empty,
\* whatever the user chooses; n on the last page and p on the first page
\* leave the page as it is.
C23_PageStaysInRange ==
    /\ [](cpc = "paging" =>
             /\ 0 <= con.page
             /\ con.page <= ShownPage.total_pages - 1
             /\ ShownPage.window # <<>>)
    /\ [][(cpc = "paging" /\ cpc' = "paging") =>
             /\ (con'.action = "n" /\ con.page = ShownPage.total_pages - 1)
                    => con'.page = con.page
             /\ (con'.action = "p" /\ con.page = 0) => con'.page = con.page]_vars

\* The user has chosen n on the last of three pages, reached by n twice, and
\* the page has stayed.
C23_Witness ==
    /\ cpc = "paging"
    /\ con.action = "n"
    /\ con.said = "invalid choice"
    /\ ShownPage.total_pages = 3
    /\ con.page = 2

\* ---------------------------------------------------------- Crawler.py
\* The sites: every page has links to some pages, some pages are target
\* pages (they hold a div of class fac-info), and the fac-nav list of a
\* target page has no link or one.
Webs ==
    [links : [Urls -> SUBSET Urls],
     targets : SUBSET Urls,
     nav : {{}} \cup {{u} : u \in Urls}]

\* parseForLinks: the links of a page in the order of the page.
ParseForLinks(url) ==
    SelectSeq(UrlSeq, LAMBDA u : u \in web.links[url])

\* The loop "for item in parseForLinks(bs): if item not in self.visited:
\* self.frontier.addURL(item)".
AddLinks(frontier, links, visited) ==
    frontier \o SelectSeq(links, LAMBDA u : u \notin visited)

\* storeNavigationLinkHtml: update_one sets nav_links in the first page
\* saved under the parent's URL.
StoreNavigationLinks(pages, parent_url, fetched) ==
    LET first == CHOOSE i \in 1..Len(pages) :
                     /\ pages[i].url = parent_url
                     /\ \A j \in 1..(i - 1) : pages[j].url # parent_url
    IN  [pages EXCEPT ![first].nav_links = @ \cup fetched]

\* crawler = Crawler(base URL); crawler.crawl(num_targets) is about to run
\* on an empty CrawledPages collection.
InitCrawl ==
    /\ db = EmptyDb
    /\ files = [f \in FileNames |-> NoFile]
    /\ bpc = "idle"
    /\ bl = NoLocals
    /\ snap = Published
    /\ spc = "idle"
    /\ sl = NoCall
    /\ cpc = "off"
    /\ con = NoConsole
    /\ ppc = "off"
    /\ pl = NoPage
    /\ kpc = "loop"
    /\ \E num_targets \in 1..MaxTargets :
          kl = [NoCrawl EXCEPT !.frontier = <<BaseUrl>>,
                               !.num_targets = num_targets]
    /\ web \in Webs

\* The first step of a turn of the loop with a crawl that tries a URL again
\* when its fetch has failed: the URL goes back to the end of the frontier.
CrawlFetchRetry ==
    /\ kpc = "loop"
    /\ kl.frontier # <<>>
    /\ \E outcome \in {"read", "urlopen raised", "read raised"} :
          CASE outcome = "read" ->
                 /\ kl' = [kl EXCEPT !.frontier = Tail(@),
                                     !.url = Head(kl.frontier),
                                     !.visited = @ \cup {Head(kl.frontier)}]
                 /\ kpc' = "fetched"
            [] outcome = "urlopen raised" ->
                 /\ kl' = [kl EXCEPT !.frontier = Append(Tail(@), Head(@)),
                                     !.url = Head(kl.frontier)]
                 /\ kpc' = "loop"
            [] outcome = "read raised" ->
                 /\ kl' = [kl EXCEPT !.frontier = Tail(@),
                                     !.url = Head(kl.frontier),
                                     !.visited = @ \cup {Head(kl.frontier)}]
                 /\ kpc' = "loop"
    /\ UNCHANGED <<db, files, buildVars, searchVars, consoleVars, pageVars, web>>

\* while not self.frontier.done(): url = self.frontier.nextURL();
\* html = self.retrievHTML(url); if html is None: continue.  retrievHTML
\* marks the URL visited once urlopen has returned, before it reads the
\* response, and returns None when either raises.
CrawlFetch ==
    /\ kpc = "loop"
    /\ kl.frontier # <<>>
    /\ \E outcome \in {"read", "urlopen raised", "read raised"} :
          CASE outcome = "read" ->
                 /\ kl' = [kl EXCEPT !.frontier = Tail(@),
                                     !.url = Head(kl.frontier),
                                     !.visited = @ \cup {Head(kl.frontier)}]
                 /\ kpc' = "fetched"
            [] outcome = "urlopen raised" ->
                 /\ kl' = [kl EXCEPT !.frontier = Tail(@),
                                     !.url = Head(kl.frontier)]
                 /\ kpc' = "loop"
            [] outcome = "read raised" ->
                 /\ kl' = [kl EXCEPT !.frontier = Tail(@),
                                     !.url = Head(kl.frontier),
                                     !.visited = @ \cup {Head(kl.frontier)}]
                 /\ kpc' = "loop"
    /\ UNCHANGED <<db, files, buildVars, searchVars, consoleVars, pageVars, web>>

\* The rest of one turn of the loop, without the test
\* "if targets_found == num_targets": the crawl goes on.
CrawlProcessNoStop ==
    /\ kpc = "fetched"
    /\ LET is_target == kl.url \in web.targets
           saved == Append(db[CrawledPagesColl],
                           [url |-> kl.url, isTarget |-> is_target,
                            nav_links |-> {}])
       IN  \E fetched \in SUBSET (IF is_target THEN web.nav ELSE {}) :
           LET visited == kl.visited \cup fetched
               targets_found == kl.targets_found + (IF is_target THEN 1 ELSE 0)
           IN  /\ db' = [db EXCEPT ![CrawledPagesColl] =
                            StoreNavigationLinks(saved, kl.url, fetched)]
               /\ kl' = [kl EXCEPT
                            !.visited = visited,
                            !.targets_found = targets_found,
                            !.frontier = AddLinks(@, ParseForLinks(kl.url),
                                                  visited)]
               /\ kpc' = "loop"
    /\ UNCHANGED <<files, buildVars, searchVars, consoleVars, pageVars, web>>

\* The rest of one turn of the loop: savePage; on a target page
\* processNavigationLinks (every nav link is fetched, and stored if the fetch
\* succeeds) and targets_found += 1; then resetFrontier and break when
\* targets_found == num_targets, the links of the page otherwise.
CrawlProcess ==
    /\ kpc = "fetched"
    /\ LET is_target == kl.url \in web.targets
           saved == Append(db[CrawledPagesColl],
                           [url |-> kl.url, isTarget |-> is_target,
                            nav_links |-> {}])
       IN  \E fetched \in SUBSET (IF is_target THEN web.nav ELSE {}) :
           LET visited == kl.visited \cup fetched
               targets_found == kl.targets_found + (IF is_target THEN 1 ELSE 0)
           IN  /\ db' = [db EXCEPT ![CrawledPagesColl] =
                            StoreNavigationLinks(saved, kl.url, fetched)]
               /\ IF targets_found = kl.num_targets
                  THEN /\ kl' = [kl EXCEPT !.visited = visited,
                                           !.targets_found = targets_found,
                                           !.frontier = <<>>]
                       /\ kpc' = "done"
                  ELSE /\ kl' = [kl EXCEPT
                                    !.visited = visited,
                                    !.targets_found = targets_found,
                                    !.frontier = AddLinks(@, ParseForLinks(kl.url),
                                                          visited)]
                       /\ kpc' = "loop"
    /\ UNCHANGED <<files, buildVars, searchVars, consoleVars, pageVars, web>>

\* self.frontier.done(): the loop ends.
CrawlDone ==
    /\ kpc = "loop"
    /\ kl.frontier = <<>>
    /\ kpc' = "done"
    /\ UNCHANGED <<db, files, buildVars, searchVars, consoleVars, pageVars, kl, web>>

NextCrawl ==
    \/ CrawlFetch
    \/ CrawlProcess
    \/ CrawlDone

SpecCrawl == InitCrawl /\ [][NextCrawl]_vars

\* The crawl is a sequential loop: as long as a step is possible, one is
\* taken.
SpecCrawlLive == SpecCrawl /\ WF_vars(NextCrawl)

\* ------------------------------------------------- claims about the crawl
\* The pages saved with isTarget = true.
SavedTargets ==
    {i \in 1..Len(db[CrawledPagesColl]) : db[CrawledPagesColl][i].isTarget}

\* C19: a crawl saves at most num_targets target pages, and once it has
\* saved and processed the num_targets-th the loop has ended and the
\* frontier is empty.
C19_CrawlStopsAtTargetCount ==
    kpc # "off" =>
        /\ Cardinality(SavedTargets) <= kl.num_targets
        /\ Cardinality(SavedTargets) = kl.num_targets =>
              (kpc = "done" /\ kl.frontier = <<>>)

\* A crawl for two targets has ended at its second target page although a
\* page it saved links to a page not yet visited.
C19_Witness ==
    /\ kpc = "done"
    /\ kl.num_targets = 2
    /\ Cardinality(SavedTargets) = 2
    /\ \E i \in 1..Len(db[CrawledPagesColl]) :
          \E u \in web.links[db[CrawledPagesColl][i].url] : u \notin kl.visited

\* C21: during one crawl no URL is saved to CrawledPages more than once,
\* even when several pages processed before its first fetch link to it.
C21_NoUrlSavedTwice ==
    \A i, j \in 1..Len(db[CrawledPagesColl]) :
        db[CrawledPagesColl][i].url = db[CrawledPagesColl][j].url => i = j

\* C22: on every site, whatever fetches fail and whatever num_targets is,
\* the crawl terminates: the frontier becomes empty or the target count is
\* reached, although a URL whose fetch fails is not added to the visited set.
C22_CrawlTerminates ==
    <>(kpc = "done")

\* A crawl has ended on an empty frontier, short of its target count, and a
\* page it saved links to a URL that is not visited: every fetch of that URL
\* failed.
C22_Witness ==
    /\ kpc = "done"
    /\ kl.frontier = <<>>
    /\ kl.targets_found < kl.num_targets
    /\ \E i \in 1..Len(db[CrawledPagesColl]) :
          \E u \in web.links[db[CrawledPagesColl][i].url] : u \notin kl.visited

\* ------------------------------------------------------- paginate_results
\* The pages a caller may ask for: every page of the longest list, and two
\* beyond the last.
Pages == 0..(MaxResults + 1)

\* A result list of n results: the i-th result is i.
ResultList(n) == [i \in 1..n |-> i]

\* A caller holds a result list and a positive page size.
InitPaginate ==
    /\ db = EmptyDb
    /\ files = [f \in FileNames |-> NoFile]
    /\ bpc = "idle"
    /\ bl = NoLocals
    /\ snap = Published
    /\ spc = "idle"
    /\ sl = NoCall
    /\ cpc = "off"
    /\ con = NoConsole
    /\ ppc = "ready"
    /\ \E n \in 0..MaxResults, page_size \in 1..MaxPageSize :
          pl = [NoPage EXCEPT !.results = ResultList(n), !.page_size = page_size]
    /\ kpc = "off"
    /\ kl = NoCrawl
    /\ web = NoWeb

\* paginate_results(results, page, page_size) for some page.  History: next
\* is the first page not yet asked for in the order 0, 1, 2, ..., and shown
\* is the windows of the pages before it, one after the other.
PaginateCall ==
    /\ ppc \in {"ready", "called"}
    /\ \E page \in Pages :
          LET got == PaginateResults(pl.results, page, pl.page_size) IN
          pl' = [pl EXCEPT !.page = page,
                           !.window = got.window,
                           !.total_pages = got.total_pages,
                           !.next = IF page = pl.next THEN @ + 1 ELSE @,
                           !.shown = IF page = pl.next THEN @ \o got.window
                                     ELSE @]
    /\ ppc' = "called"
    /\ UNCHANGED <<db, files, buildVars, searchVars, consoleVars, crawlVars>>

NextPaginate ==
    \/ PaginateCall

SpecPaginate == InitPaginate /\ [][NextPaginate]_vars

\* ------------------------------------------- claims about paginate_results
\* ceil(n / d) for d > 0: the least k with k * d >= n.
Ceil(n, d) == CHOOSE k \in 0..n : k * d >= n /\ \A j \in 0..n : j * d >= n => k <= j

\* C13: total_pages is ceil(len(results) / page_size); for an empty result
\* list it is 0 and the window is empty.
C13_TotalPagesIsCeiling ==
    ppc = "called" =>
        /\ pl.total_pages = Ceil(Len(pl.results), pl.page_size)
        /\ pl.results = <<>> => (pl.total_pages = 0 /\ pl.window = <<>>)

\* A call on a list whose length is not a multiple of the page size, more
\* than one page long.
C13_Witness ==
    /\ ppc = "called"
    /\ Len(pl.results) % pl.page_size # 0
    /\ pl.page_size > 1
    /\ pl.total_pages > 2

\* C14: the windows of pages 0 .. total_pages - 1, one after the other, are
\* the result list; 7 results with page size 5 give page 1 = the 6th and 7th
\* results and 2 pages.
C14_WindowsPartitionResults ==
    ppc = "called" =>
        /\ pl.next >= pl.total_pages => pl.shown = pl.results
        /\ (Len(pl.results) = 7 /\ pl.page_size = 5 /\ pl.page = 1) =>
              (pl.window = <<6, 7>> /\ pl.total_pages = 2)

\* Both pages of 7 results with page size 5 have been asked for, page 1 last.
C14_Witness ==
    /\ ppc = "called"
    /\ Len(pl.results) = 7
    /\ pl.page_size = 5
    /\ pl.page = 1
    /\ pl.next = 2
    /\ pl.shown = pl.results

\* C15: a page at or beyond total_pages gives an empty window and the right
\* total_pages.
C15_PageBeyondEndIsEmpty ==
    (ppc = "called" /\ pl.page >= pl.total_pages) =>
        /\ pl.window = <<>>
        /\ pl.total_pages = Ceil(Len(pl.results), pl.page_size)

\* A page beyond the last page of a list that is not empty was asked for.
C15_Witness ==
    /\ ppc = "called"
    /\ pl.results # <<>>
    /\ pl.page > pl.total_pages
    /\ pl.window = <<>>

============================================================================
